---- MODULE Spec2Model ----
(***************************************************************************)
(* ChatKit SDK (mortgage-agent/frontend/chatkit.js): the embedded page's   *)
(* side of the iframe <-> host messaging bridge.                           *)
(*                                                                         *)
(* The model follows the singleton object ChatKit and its methods.  Each   *)
(* public call and each dispatch of a window 'message' event is one        *)
(* action (JavaScript runs every call and every event turn to completion). *)
(* The methods are operators over a record s that carries the fields the   *)
(* call can change, so that a callback which calls back into the SDK       *)
(* (onError or onReady calling sendData) is evaluated inside the call that *)
(* invoked it, as in the source.                                           *)
(*                                                                         *)
(* The application's code is modelled by what it may do to the SDK: the   *)
(* onReady and onError callbacks are absent, return at once, or call       *)
(* sendData (the error callback for the first failure only); callbacks and *)
(* command handlers return normally.  Logical time stands for Date: every  *)
(* call into the SDK takes one tick, so the timestamp of an embed_data     *)
(* message also identifies the sendData call that created it.              *)
(*                                                                         *)
(* Observables that are not fields of ChatKit:                             *)
(*   sent   every call of window.parent.postMessage of the session, in     *)
(*          order, with its target origin and whether it threw             *)
(*   registrations   every onCommand call of the session, in order          *)
(*   turn   the name of the last call / event turn (with the command name  *)
(*          and params of a parent_command, and the kind of an ignored     *)
(*          event) and the trace of what happened in it:                   *)
(*          posts, queue pushes, callback and handler invocations,         *)
(*          warnings, uncaught exceptions                                  *)
(***************************************************************************)
EXTENDS Integers, Sequences, FiniteSets, TLC

VARIABLES
    _config,          \* ChatKit._config: NullConfig before init
    _parentOrigin,    \* ChatKit._parentOrigin: NullOrigin (JS null) until resolved
    _messageQueue,    \* ChatKit._messageQueue
    _commandHandlers, \* ChatKit._commandHandlers: own properties and prototype
    _isReady,         \* ChatKit._isReady
    listeners,        \* number of 'message' listeners init has attached
    parentIsSelf,     \* window.parent === window (top-level page)
    referrer,         \* document.referrer
    clock,            \* logical time: every call into the SDK takes one tick
    reported,         \* state of the application's one-shot onError callback
    sent,             \* history of postMessage calls
    registrations,    \* history of onCommand calls: <<command, handler>>
    turn              \* last call / event turn and its trace

vars == << _config, _parentOrigin, _messageQueue, _commandHandlers, _isReady,
           listeners, parentIsSelf, referrer, clock, reported, sent,
           registrations, turn >>

---------------------------------------------------------------------------
(* Bounds of the model *)

\* calls the page makes into the SDK (init, sendData, sendMessage, onCommand,
\* resize, autoResize, close), each one tick of the clock
MaxClock == 3

---------------------------------------------------------------------------
(* Values *)

Undefined == "undefined"

\* _config before init (line 23: null)
NullConfig == [isNull |-> TRUE]

\* What a configured callback does.  "noop": returns without touching the
\* SDK.  "send": calls kit.sendData(CallbackData); the error callback does
\* so for the first failure only (a one-shot reporter).
CallbackKinds == {Undefined, "noop", "send"}

\* init's argument: undefined, or an object with the recognised options
NoConfig == [given |-> FALSE]
Config(pageId, onReadyKind, onErrorKind) ==
    [given |-> TRUE, pageId |-> pageId, onReady |-> onReadyKind,
     onError |-> onErrorKind]
ConfigInputs ==
    { NoConfig,
      Config("loan-form-v1", "noop", "noop"),
      Config("loan-form-v1", "send", "send") }

\* Payloads handed to sendData.  An object holding a function cannot be
\* structured-cloned: postMessage throws DataCloneError for it.  The
\* callbacks send a payload of their own.
CallbackData == [report |-> "from-callback"]
Uncloneable(data) == "fn" \in DOMAIN data

\* options argument of sendData
NoOptions == [undefined |-> TRUE]
EmptyObject == [empty |-> TRUE]
Options == { NoOptions, [display |-> "card"] }
\* the (data, options) pairs the page calls sendData with
DataInputs ==
    { <<[x |-> 1], NoOptions>>, <<[fn |-> "function"], [display |-> "card"]>> }

Texts == {"done"}
MessageTypes == {Undefined}
Heights == {120}
\* document.body.scrollHeight and document.documentElement.scrollHeight
BodyHeights == {120}
RootHeights == {120, 480}

\* document.referrer values: none, an http(s) host page, and a referrer
\* whose scheme gives an opaque origin
Referrers == {"", "https://host.example/chat?s=1", "android-app://com.host/"}

\* (window.parent === window, document.referrer): a page opened on its own,
\* and an embedded page with each referrer
Environments == {<<TRUE, "">>} \cup ({FALSE} \X Referrers)

\* _parentOrigin before it is resolved (line 24: null)
NullOrigin == "<null>"

\* new URL(u).origin
URLOrigin(u) ==
    CASE u = "https://host.example/chat?s=1" -> "https://host.example"
      [] u = "android-app://com.host/" -> "null"
      [] OTHER -> "null"

\* names the page registers handlers under, and names the host sends
CommandNames == {"reset", "submit"}
InboundNames == CommandNames \cup {"toString", "__proto__"}
Handlers == {"h1", "h2"}
Params == {"p0", "p1"}

ObjectPrototype == "Object.prototype"

---------------------------------------------------------------------------
(* The call record *)

State(cfg, origin, q, ready, clk, rep, snt) ==
    [cfg |-> cfg, origin |-> origin, q |-> q, ready |-> ready,
     clock |-> clk, reported |-> rep, sent |-> snt, trace |-> <<>>]

Here ==
    State(_config, _parentOrigin, _messageQueue, _isReady, clock, reported, sent)

Emit(s, e) == [s EXCEPT !.trace = Append(@, e)]

\* new Date().toISOString() / Date.now(): the tick of the running call
Now(s) == s.clock
\* the call returns one tick later
Tick(s) == [s EXCEPT !.clock = @ + 1]

---------------------------------------------------------------------------
(* Host primitives *)

\* window.parent.postMessage(message, targetOrigin) throws synchronously:
\* SyntaxError when targetOrigin is neither "*" nor a parseable URL (the
\* serialised opaque origin "null" is not), DataCloneError when the message
\* cannot be structured-cloned.
PostThrows(message, targetOrigin) ==
    \/ targetOrigin \notin {"*", "https://host.example"}
    \/ message.type = "embed_data" /\ Uncloneable(message.data)

\* mutant of Post: every message is addressed to the wildcard
Post_wildcard(message, targetOrigin) ==
    [ev |-> "post", msg |-> message, to |-> "*",
     threw |-> PostThrows(message, "*")]

\* The record kept in sent / in the trace for one postMessage call
Post(message, targetOrigin) ==
    [ev |-> "post", msg |-> message, to |-> targetOrigin,
     threw |-> PostThrows(message, targetOrigin)]

---------------------------------------------------------------------------
(* Small steps of the methods *)

\* Array.prototype.push (line 74)
push(q, message) == Append(q, message)

\* mutant of shift: takes the newest element (pop)
shift_pop(q) == [item |-> q[Len(q)], rest |-> SubSeq(q, 1, Len(q) - 1)]

\* Array.prototype.shift (line 169): the removed element and what is left
shift(q) == [item |-> Head(q), rest |-> Tail(q)]

\* options || {} (line 67)
OptionsOrEmpty(options) == IF options = NoOptions THEN EmptyObject ELSE options

\* type || 'info' (line 86)
TypeOrInfo(type) == IF type = Undefined THEN "info" ELSE type

\* mutants of SendsNow: the branch ignores the flag
SendsNow_always(ready) == TRUE
SendsNow_never(ready) == FALSE

\* the branch of sendData (line 71): transmit now, or queue
SendsNow(ready) == ready

\* mutant of NoHost: the guard is missing
NoHost_never(isTop) == FALSE

\* the guard of _sendToParent (line 145)
NoHost(isTop) == isTop

\* mutant of ReadyOnParentReady: the flag is toggled
ReadyOnParentReady_toggle(ready) == ~ready

\* the assignment of the handshake (line 165)
ReadyOnParentReady(ready) == TRUE

\* the condition guarding the onReady call (line 173)
CallsOnReady(cfg) == cfg.onReady # Undefined

---------------------------------------------------------------------------
(* Methods *)

RECURSIVE sendData(_, _, _), _sendToParent(_, _), onError(_)

\* this._config.onError(e), lines 151-153, with what the callback does
onError(s) ==
    LET s1 == Emit(s, [ev |-> "onError"])
    IN  IF s.cfg.onError = "send" /\ ~s.reported
        THEN sendData([s1 EXCEPT !.reported = TRUE], CallbackData, NoOptions)
        ELSE s1

\* mutant of _sendToParent: no try / catch around postMessage
_sendToParent_uncaught(s, message) ==
    IF NoHost(parentIsSelf) THEN s
    ELSE LET p  == Post(message, s.origin)
             s1 == Emit([s EXCEPT !.sent = Append(@, p)], p)
         IN  IF p.threw
             THEN Emit(s1, [ev |-> "throw", err |-> "DataCloneError"])
             ELSE s1

\* lines 144-155
_sendToParent(s, message) ==
    IF NoHost(parentIsSelf) THEN s
    ELSE LET p  == Post(message, s.origin)
             s1 == Emit([s EXCEPT !.sent = Append(@, p)], p)
         IN  IF p.threw
             THEN IF s.cfg.onError # Undefined THEN onError(s1) ELSE s1
             ELSE s1

\* mutant of sendData: a missing _config is tolerated (no pageId)
sendData_lenient(s, data, options) ==
    LET message == [type |-> "embed_data",
                    pageId |-> IF s.cfg = NullConfig THEN Undefined
                               ELSE s.cfg.pageId,
                    data |-> data, options |-> OptionsOrEmpty(options),
                    timestamp |-> Now(s)]
        s1 == Tick(s)
    IN  IF SendsNow(s1.ready)
        THEN _sendToParent(s1, message)
        ELSE Emit([s1 EXCEPT !.q = push(@, message)],
                  [ev |-> "queued", msg |-> message])

\* lines 62-76; reading this._config.pageId of a null _config throws
sendData(s, data, options) ==
    IF s.cfg = NullConfig
    THEN Emit(Tick(s), [ev |-> "throw", err |-> "TypeError"])
    ELSE
    LET message == [type |-> "embed_data", pageId |-> s.cfg.pageId,
                    data |-> data, options |-> OptionsOrEmpty(options),
                    timestamp |-> Now(s)]
        s1 == Tick(s)
    IN  IF SendsNow(s1.ready)
        THEN _sendToParent(s1, message)
        ELSE Emit([s1 EXCEPT !.q = push(@, message)],
                  [ev |-> "queued", msg |-> message])

\* lines 83-89
sendMessage(s, text, type) ==
    sendData(s, [type |-> "message", messageType |-> TypeOrInfo(type),
                 content |-> text], NoOptions)

\* mutant of resize: queued like data while the handshake is pending
resize_queues(s, height) ==
    IF s.cfg = NullConfig
    THEN Emit(Tick(s), [ev |-> "throw", err |-> "TypeError"])
    ELSE LET m == [type |-> "embed_resize", pageId |-> s.cfg.pageId,
                   height |-> height]
         IN  IF s.ready THEN _sendToParent(Tick(s), m)
             ELSE Emit([Tick(s) EXCEPT !.q = push(@, m)],
                       [ev |-> "queued", msg |-> m])

\* lines 104-110
resize(s, height) ==
    IF s.cfg = NullConfig
    THEN Emit(Tick(s), [ev |-> "throw", err |-> "TypeError"])
    ELSE _sendToParent(Tick(s), [type |-> "embed_resize", pageId |-> s.cfg.pageId,
                           height |-> height])

\* Math.max of the two scroll heights (lines 116-119)
Max(a, b) == IF a >= b THEN a ELSE b

\* lines 115-121
autoResize(s, bodyHeight, rootHeight) == resize(s, Max(bodyHeight, rootHeight))

\* lines 126-131
close(s) ==
    IF s.cfg = NullConfig
    THEN Emit(Tick(s), [ev |-> "throw", err |-> "TypeError"])
    ELSE _sendToParent(Tick(s), [type |-> "embed_close", pageId |-> s.cfg.pageId])

\* lines 134-142: the origin after _detectParentOrigin
_detectParentOrigin(origin) ==
    IF parentIsSelf THEN origin
    ELSE IF referrer # "" THEN URLOrigin(referrer) ELSE "*"

\* config || {} and the pageId default (lines 38-39)
ConfigOf(config, now) ==
    LET c == IF config.given
             THEN [pageId |-> config.pageId, onReady |-> config.onReady,
                   onError |-> config.onError]
             ELSE [pageId |-> Undefined, onReady |-> Undefined,
                   onError |-> Undefined]
    IN  IF c.pageId # Undefined THEN c
        ELSE [c EXCEPT !.pageId = "embed-" \o ToString(now)]

\* mutant of init: the ready signal goes to the pending queue
init_queues(s, config) ==
    LET s1 == [s EXCEPT !.cfg = ConfigOf(config, Now(s)),
                        !.origin = _detectParentOrigin(s.origin)]
        m  == [type |-> "embed_ready", pageId |-> s1.cfg.pageId,
               timestamp |-> Now(s)]
    IN  Emit([Tick(s1) EXCEPT !.q = push(@, m)], [ev |-> "queued", msg |-> m])

\* mutant of init: the embed_ready notification is left out
init_silent(s, config) ==
    Tick([s EXCEPT !.cfg = ConfigOf(config, Now(s)),
                   !.origin = _detectParentOrigin(s.origin)])

\* lines 37-55, but for the listener registration (the init action)
init(s, config) ==
    LET s1 == [s EXCEPT !.cfg = ConfigOf(config, Now(s)),
                        !.origin = _detectParentOrigin(s.origin)]
    IN  _sendToParent(Tick(s1),
                      [type |-> "embed_ready", pageId |-> s1.cfg.pageId,
                       timestamp |-> Now(s)])

---------------------------------------------------------------------------
(* The handler registry: a plain object literal, so a name that is no own   *)
(* property is looked up in Object.prototype.                              *)

\* _commandHandlers: {} (line 26)
EmptyRegistry == [c \in CommandNames |-> Undefined]

\* mutant of SetHandler: a registered name keeps its first handler
SetHandler_keepsFirst(reg, command, handler) ==
    IF reg[command] = Undefined THEN [reg EXCEPT ![command] = handler] ELSE reg

\* this._commandHandlers[command] = handler (line 97)
SetHandler(reg, command, handler) == [reg EXCEPT ![command] = handler]

\* what Object.prototype answers for a name that is no own property
Inherited(command) ==
    CASE command = "toString" -> "Object.prototype.toString"
      [] command = "__proto__" -> ObjectPrototype
      [] OTHER -> Undefined

\* this._commandHandlers[command] (line 181)
GetHandler(reg, command) ==
    IF command \in DOMAIN reg /\ reg[command] # Undefined
    THEN reg[command]
    ELSE Inherited(command)

\* mutant of Invoke: the handler is called without the params
Invoke_noParams(s, handler, command, params) ==
    IF handler = Undefined
    THEN Emit(s, [ev |-> "warn", command |-> command])
    ELSE IF handler = ObjectPrototype
    THEN Emit(s, [ev |-> "throw", err |-> "TypeError"])
    ELSE Emit(s, [ev |-> "call", command |-> command, fn |-> handler,
                  arg |-> Undefined])

\* lines 183-187: handler(message.params) or the warning
Invoke(s, handler, command, params) ==
    IF handler = Undefined
    THEN Emit(s, [ev |-> "warn", command |-> command])
    ELSE IF handler = ObjectPrototype
    THEN Emit(s, [ev |-> "throw", err |-> "TypeError"])
    ELSE Emit(s, [ev |-> "call", command |-> command, fn |-> handler,
                  arg |-> params])

---------------------------------------------------------------------------
(* Inbound dispatcher *)

\* event.data of a delivered 'message' event
Inbound ==
    { [shape |-> "null"], [shape |-> "string"],
      [shape |-> "object", type |-> "parent_ready"],
      [shape |-> "object", type |-> "greeting"] } \cup
    { m \in [shape : {"object"}, type : {"parent_command"},
              command : InboundNames, params : Params] :
          m.params = "p0" \/ m.command = "reset" }

\* lines 168-171: the flush loop
\* mutant of Flush: the loop ends at the first message that fails
RECURSIVE Flush_stopsOnFailure(_)
Flush_stopsOnFailure(s) ==
    IF Len(s.q) > 0
    THEN LET sh == shift(s.q)
             s1 == _sendToParent([s EXCEPT !.q = sh.rest], sh.item)
         IN  IF PostThrows(sh.item, s.origin) THEN s1
             ELSE Flush_stopsOnFailure(s1)
    ELSE s

\* the loop of lines 168-171
RECURSIVE Flush(_)
Flush(s) ==
    IF Len(s.q) > 0
    THEN LET sh == shift(s.q)
         IN  Flush(_sendToParent([s EXCEPT !.q = sh.rest], sh.item))
    ELSE s

\* this._config.onReady(), lines 173-175, with what the callback does
onReady(s) ==
    LET s1 == Emit(s, [ev |-> "onReady"])
    IN  IF s.cfg.onReady = "send" THEN sendData(s1, CallbackData, NoOptions)
        ELSE s1

\* mutant of _handleMessage: every object that is no command completes the
\* handshake
_handleMessage_anyType(s, reg, message) ==
    IF message.shape # "object" THEN s
    ELSE IF message.type = "parent_command"
    THEN Invoke(s, GetHandler(reg, message.command), message.command,
                message.params)
    ELSE LET r == Flush([s EXCEPT !.ready = ReadyOnParentReady(@)])
         IN  IF CallsOnReady(r.cfg) THEN onReady(r) ELSE r

\* mutant of _handleMessage: onReady is called before the queue is flushed
_handleMessage_readyFirst(s, reg, message) ==
    IF message.shape # "object" THEN s
    ELSE
    LET s1 == IF message.type = "parent_ready"
              THEN LET r == [s EXCEPT !.ready = ReadyOnParentReady(@)]
                   IN  Flush(IF CallsOnReady(r.cfg) THEN onReady(r) ELSE r)
              ELSE s
    IN  IF message.type = "parent_command"
        THEN Invoke(s1, GetHandler(reg, message.command), message.command,
                    message.params)
        ELSE s1

\* lines 157-189
_handleMessage(s, reg, message) ==
    IF message.shape # "object" THEN s
    ELSE
    LET s1 == IF message.type = "parent_ready"
              THEN LET r == Flush([s EXCEPT !.ready = ReadyOnParentReady(@)])
                   IN  IF CallsOnReady(r.cfg) THEN onReady(r) ELSE r
              ELSE s
    IN  IF message.type = "parent_command"
        THEN Invoke(s1, GetHandler(reg, message.command), message.command,
                    message.params)
        ELSE s1

\* the event loop calls every attached listener (line 45) with the event
RECURSIVE Dispatch(_, _, _, _)
Dispatch(s, reg, message, n) ==
    IF n = 0 THEN s
    ELSE Dispatch(_handleMessage(s, reg, message), reg, message, n - 1)

---------------------------------------------------------------------------
(* Actions *)

Commit(s, op, arg, params) ==
    /\ _config' = s.cfg
    /\ _parentOrigin' = s.origin
    /\ _messageQueue' = s.q
    /\ _isReady' = s.ready
    /\ clock' = s.clock
    /\ reported' = s.reported
    /\ sent' = s.sent
    /\ turn' = [op |-> op, arg |-> arg, params |-> params, trace |-> s.trace]

\* the page makes MaxClock calls
CanCall == clock < MaxClock
\* events go on arriving after the page's last call, until a callback's own
\* call has passed the bound
CanDeliver == clock <= MaxClock

\* what the dispatcher makes of an event (lines 161, 164, 179)
Kind(message) ==
    IF message.shape = "object" /\ message.type \in {"parent_ready", "parent_command"}
    THEN message.type
    ELSE "ignored"

\* the command name of a parent_command (line 180); for an event the
\* dispatcher ignores, what event.data was
Arg(message) ==
    CASE Kind(message) = "parent_command" -> message.command
      [] Kind(message) = "ignored" /\ message.shape = "object" -> message.type
      [] Kind(message) = "ignored" /\ message.shape # "object" -> message.shape
      [] OTHER -> ""

\* message.params of a parent_command (line 184)
ParamsOf(message) ==
    IF Kind(message) = "parent_command" THEN message.params ELSE ""

Init ==
    /\ _config = NullConfig
    /\ _parentOrigin = NullOrigin
    /\ _messageQueue = <<>>
    /\ _commandHandlers = EmptyRegistry
    /\ _isReady = FALSE
    /\ listeners = 0
    /\ \E env \in Environments : parentIsSelf = env[1] /\ referrer = env[2]
    /\ clock = 0
    /\ reported = FALSE
    /\ sent = <<>>
    /\ registrations = <<>>
    /\ turn = [op |-> "load", arg |-> "", params |-> "", trace |-> <<>>]

Call_init ==
    /\ CanCall
    /\ \E config \in ConfigInputs : Commit(init(Here, config), "init", "", "")
    /\ listeners' = listeners + 1
    /\ UNCHANGED << _commandHandlers, parentIsSelf, referrer, registrations >>

Call_sendData ==
    /\ CanCall
    /\ \E in \in DataInputs : Commit(sendData(Here, in[1], in[2]), "sendData", "", "")
    /\ UNCHANGED << _commandHandlers, listeners, parentIsSelf, referrer,
                    registrations >>

Call_sendMessage ==
    /\ CanCall
    /\ \E text \in Texts, type \in MessageTypes :
           Commit(sendMessage(Here, text, type), "sendMessage", "", "")
    /\ UNCHANGED << _commandHandlers, listeners, parentIsSelf, referrer,
                    registrations >>

Call_onCommand ==
    /\ CanCall
    /\ \E command \in CommandNames, handler \in Handlers :
           /\ _commandHandlers' = SetHandler(_commandHandlers, command, handler)
           /\ registrations' = Append(registrations, <<command, handler>>)
    /\ clock' = clock + 1
    /\ turn' = [op |-> "onCommand", arg |-> "", params |-> "", trace |-> <<>>]
    /\ UNCHANGED << _config, _parentOrigin, _messageQueue, _isReady, listeners,
                    parentIsSelf, referrer, reported, sent >>

Call_resize ==
    /\ CanCall
    /\ \E height \in Heights : Commit(resize(Here, height), "resize", "", "")
    /\ UNCHANGED << _commandHandlers, listeners, parentIsSelf, referrer,
                    registrations >>

Call_autoResize ==
    /\ CanCall
    /\ \E bodyHeight \in BodyHeights, rootHeight \in RootHeights :
           Commit(autoResize(Here, bodyHeight, rootHeight), "autoResize", "", "")
    /\ UNCHANGED << _commandHandlers, listeners, parentIsSelf, referrer,
                    registrations >>

Call_close ==
    /\ CanCall
    /\ Commit(close(Here), "close", "", "")
    /\ UNCHANGED << _commandHandlers, listeners, parentIsSelf, referrer,
                    registrations >>

\* a 'message' event arrives at the window
MessageEvent ==
    /\ CanDeliver
    /\ \E message \in Inbound :
           Commit(Dispatch(Here, _commandHandlers, message, listeners),
                  Kind(message), Arg(message), ParamsOf(message))
    /\ UNCHANGED << _commandHandlers, listeners, parentIsSelf, referrer,
                    registrations >>

Next ==
    \/ Call_init
    \/ Call_sendData
    \/ Call_sendMessage
    \/ Call_onCommand
    \/ Call_resize
    \/ Call_autoResize
    \/ Call_close
    \/ MessageEvent

Spec == Init /\ [][Next]_vars

---------------------------------------------------------------------------
(* Vocabulary of the properties *)

Embedded == ~parentIsSelf
Initialised == _config # NullConfig

IsPost(e) == e.ev = "post"
IsDataPost(e) == e.ev = "post" /\ e.msg.type = "embed_data"
IsQueuedIn(q, e) == e.ev = "post" /\ \E i \in 1..Len(q) : q[i] = e.msg
MsgsOf(events) == [i \in 1..Len(events) |-> events[i].msg]

\* the postMessage calls of a trace, and those of its embed_data messages
Posts(trace) == SelectSeq(trace, IsPost)
DataPosts(trace) == SelectSeq(trace, IsDataPost)
\* the posts of a trace that hand over a message of queue q
PostsOf(q, trace) == SelectSeq(trace, LAMBDA e : IsQueuedIn(q, e))

\* positions of a trace
Pos(trace) == 1..Len(trace)

\* a sendData issued by the page itself (not by a callback)
FromPage(message) ==
    message.type = "embed_data" /\ message.data # CallbackData

\* the step that completes the handshake
Handshake == ~_isReady /\ _isReady'

SendOps == {"sendData", "sendMessage"}
DirectOps == {"resize", "autoResize", "close"}

---------------------------------------------------------------------------
(* C1 *)

\* the pending queue holds its messages in the order of the sendData calls
\* that created them (the tick of the call is the message's timestamp)
QueueInCallOrder ==
    \A i, j \in 1..Len(_messageQueue) :
        i < j => _messageQueue[i].timestamp < _messageQueue[j].timestamp

\* C1: in an embedded page, the messages queued by sendData before the
\* handshake are handed to the host, in the turn of the first parent_ready,
\* in the order in which sendData was called: the queue is in call order,
\* and the posts of that turn that carry queued messages are exactly the
\* queue, front to back.
C1_DrainIsFIFO ==
    /\ []QueueInCallOrder
    /\ [][ (Handshake /\ Embedded) =>
              MsgsOf(PostsOf(_messageQueue, turn'.trace)) = _messageQueue ]_vars

\* a handshake turn that drained two messages queued by the page
C1_Witness ==
    /\ Embedded /\ _isReady /\ turn.op = "parent_ready"
    /\ \E i, j \in Pos(turn.trace) :
           /\ i < j
           /\ IsDataPost(turn.trace[i]) /\ FromPage(turn.trace[i].msg)
           /\ IsDataPost(turn.trace[j]) /\ FromPage(turn.trace[j].msg)
           /\ turn.trace[i].msg.timestamp < turn.trace[j].msg.timestamp

---------------------------------------------------------------------------
(* C2 *)

NoDataSent == \A i \in 1..Len(sent) : sent[i].msg.type # "embed_data"

\* C2: in an initialised session whose ready flag is false, a sendData or
\* sendMessage call posts nothing and appends its embed_data message at the
\* tail of the pending queue; and as long as the flag is false (no
\* parent_ready has been handled) no embed_data message has been posted.
C2_QueuedWhileNotReady ==
    /\ [](~_isReady => NoDataSent)
    /\ [][ (turn'.op \in SendOps /\ ~_isReady /\ Initialised) =>
              /\ sent' = sent
              /\ Len(_messageQueue') = Len(_messageQueue) + 1
              /\ SubSeq(_messageQueue', 1, Len(_messageQueue)) = _messageQueue
              /\ LET m == _messageQueue'[Len(_messageQueue')]
                 IN  m.type = "embed_data" /\ m.timestamp = clock ]_vars

\* a second sendData queued behind the first while the handshake is pending
C2_Witness ==
    /\ Embedded /\ ~_isReady /\ turn.op \in SendOps
    /\ Len(_messageQueue) >= 2 /\ sent # <<>>

---------------------------------------------------------------------------
(* C3 *)

\* C3 as stated: after init in an embedded page the embed_ready message has
\* not been posted and waits in the pending queue.
C3_ReadyIsQueued ==
    (Embedded /\ turn.op = "init" /\ ~_isReady) =>
        /\ Posts(turn.trace) = <<>>
        /\ \E i \in 1..Len(_messageQueue) : _messageQueue[i].type = "embed_ready"

\* C3, amended: init hands the embed_ready message to postMessage itself,
\* as the first thing it transmits, whatever the ready flag; the message is
\* never in the pending queue (which holds embed_data only), and the turn of
\* a parent_ready does not post it.
C3_ReadyIsSentByInit ==
    /\ \A i \in 1..Len(_messageQueue) : _messageQueue[i].type = "embed_data"
    /\ (Embedded /\ turn.op = "init") =>
           /\ turn.trace # <<>>
           /\ IsPost(turn.trace[1])
           /\ turn.trace[1].msg.type = "embed_ready"
           /\ turn.trace[1].msg.pageId = _config.pageId
           /\ sent # <<>>
    /\ turn.op = "parent_ready" =>
           \A i \in Pos(turn.trace) :
               IsPost(turn.trace[i]) => turn.trace[i].msg.type # "embed_ready"

\* init has just posted embed_ready while the handshake is pending
C3_Witness ==
    /\ Embedded /\ turn.op = "init" /\ ~_isReady
    /\ Len(turn.trace) >= 1 /\ IsPost(turn.trace[1])
    /\ turn.trace[1].msg.type = "embed_ready"
    /\ _messageQueue = <<>>

---------------------------------------------------------------------------
(* C4 *)

DirectType(op) == IF op = "close" THEN "embed_close" ELSE "embed_resize"

\* what resize / autoResize / close transmit at once, in an embedded and
\* initialised session whose ready flag is false
DirectPost ==
    /\ turn'.trace # <<>>
    /\ IsPost(turn'.trace[1])
    /\ turn'.trace[1].msg.type = DirectType(turn'.op)
    /\ Len(sent') > Len(sent)
    /\ sent'[Len(sent) + 1] = turn'.trace[1]
    /\ _isReady' = _isReady

DirectStep ==
    turn'.op \in DirectOps /\ ~_isReady /\ Initialised /\ Embedded

\* C4: in an embedded, initialised session whose ready flag is false, a
\* resize, autoResize or close call hands its embed_resize / embed_close
\* message to postMessage at once, as the next post of the session, and
\* leaves the pending queue and the ready flag as they were.
C4_DirectWhileNotReady ==
    [][ DirectStep => (DirectPost /\ _messageQueue' = _messageQueue) ]_vars

\* a resize or close posted while a message waits in the pending queue
C4_Witness ==
    /\ Embedded /\ ~_isReady /\ turn.op \in DirectOps
    /\ _messageQueue # <<>>
    /\ turn.trace # <<>> /\ IsPost(turn.trace[1])
    /\ ~turn.trace[1].threw

---------------------------------------------------------------------------
(* C5 *)

\* C5: the ready flag starts false and no call and no inbound message sets
\* it back to false once it is true.
C5_ReadyNeverReverts ==
    /\ ~_isReady
    /\ [][ _isReady => _isReady' ]_vars

\* the session was re-initialised after the handshake and is still ready
C5_Witness == _isReady /\ turn.op = "init" /\ listeners >= 2

---------------------------------------------------------------------------
(* C6 *)

\* C6: at the end of every call and every event turn, a true ready flag
\* implies an empty pending queue.
C6_ReadyImpliesEmptyQueue == _isReady => _messageQueue = <<>>

\* a sendData after the handshake, following a drain of a non-empty queue
C6_Witness ==
    /\ Embedded /\ _isReady /\ turn.op \in SendOps /\ _messageQueue = <<>>
    /\ \E i, j \in 1..Len(sent) :
           /\ i < j
           /\ sent[i].msg.type = "embed_data" /\ sent[j].msg.type = "embed_data"
           /\ sent[j] = turn.trace[1]

---------------------------------------------------------------------------
(* C7 *)

\* C7 as stated: a parent_ready handled while the session is already ready
\* is a no-op: it posts nothing, calls no callback (so onReady runs at most
\* once per session) and changes no state.
C7_SecondParentReadyIsNoOp ==
    [][ (_isReady /\ turn'.op = "parent_ready" /\ listeners >= 1) =>
            /\ turn'.trace = <<>>
            /\ UNCHANGED << _config, _parentOrigin, _messageQueue,
                            _commandHandlers, _isReady, sent >> ]_vars

---------------------------------------------------------------------------
(* C8 *)

\* positions of the trace at which message m is posted
PostedAt(trace, m) == { i \in Pos(trace) : IsPost(trace[i]) /\ trace[i].msg = m }

\* no embed_data message is posted twice in the session, and none is both
\* posted and still queued
PostedOnce ==
    /\ \A i, j \in 1..Len(sent) :
           (i # j /\ sent[i].msg.type = "embed_data"
                  /\ sent[j].msg.type = "embed_data")
               => sent[i].msg.timestamp # sent[j].msg.timestamp
    /\ \A i \in 1..Len(sent), k \in 1..Len(_messageQueue) :
           sent[i].msg # _messageQueue[k]

\* C8: in an embedded page every message queued before the handshake is
\* posted exactly once, in the turn of the first parent_ready, and onReady
\* is invoked in that turn only after the last of them has been posted; no
\* embed_data message is ever posted twice.
C8_DrainOnceThenOnReady ==
    /\ [](Embedded => PostedOnce)
    /\ [][ (Handshake /\ Embedded) =>
             \A k \in 1..Len(_messageQueue) :
                 /\ Cardinality(PostedAt(turn'.trace, _messageQueue[k])) = 1
                 /\ \A i \in PostedAt(turn'.trace, _messageQueue[k]),
                       j \in Pos(turn'.trace) :
                        turn'.trace[j].ev = "onReady" => i < j ]_vars

\* a handshake turn that posted a queued message and then called onReady
C8_Witness ==
    /\ Embedded /\ _isReady /\ turn.op = "parent_ready"
    /\ \E i, j \in Pos(turn.trace) :
           /\ i < j
           /\ IsDataPost(turn.trace[i]) /\ FromPage(turn.trace[i].msg)
           /\ turn.trace[j].ev = "onReady"

---------------------------------------------------------------------------
(* C9 *)

\* C9: in an embedded page with a true ready flag, a sendData or
\* sendMessage call posts its own message as the next postMessage call of
\* the session, inside the call, and leaves the pending queue as it was; so
\* successive calls are posted in call order.
C9_SendsDirectlyWhenReady ==
    [][ (_isReady /\ turn'.op \in SendOps /\ Embedded) =>
          /\ turn'.trace # <<>>
          /\ IsDataPost(turn'.trace[1])
          /\ turn'.trace[1].msg.timestamp = clock
          /\ FromPage(turn'.trace[1].msg)
          /\ Len(sent') > Len(sent)
          /\ SubSeq(sent', 1, Len(sent)) = sent
          /\ sent'[Len(sent) + 1] = turn'.trace[1]
          /\ _messageQueue' = _messageQueue ]_vars

\* two successive sendData calls after the handshake, posted in call order
C9_Witness ==
    /\ Embedded /\ _isReady /\ turn.op \in SendOps /\ Len(sent) >= 2
    /\ LET a == sent[Len(sent) - 1]
           b == sent[Len(sent)]
       IN  /\ a.msg.type = "embed_data" /\ FromPage(a.msg)
           /\ b.msg.type = "embed_data" /\ FromPage(b.msg)
           /\ a.msg.timestamp + 1 = b.msg.timestamp
           /\ b = turn.trace[1]

---------------------------------------------------------------------------
(* C10 *)

\* the handler of the most recent onCommand(command, ...) call
RECURSIVE LastRegistered(_, _)
LastRegistered(history, command) ==
    IF history = <<>> THEN Undefined
    ELSE LET last == history[Len(history)]
         IN  IF last[1] = command THEN last[2]
             ELSE LastRegistered(SubSeq(history, 1, Len(history) - 1), command)

\* C10: a parent_command for a name that onCommand was called with invokes
\* the handler passed to the most recent onCommand call for that name (in
\* every attached listener), and nothing else: no earlier handler of the
\* name, no handler of another name, no warning.
C10_LastRegistrationWins ==
    (/\ turn.op = "parent_command" /\ listeners >= 1
     /\ turn.arg \in CommandNames
     /\ LastRegistered(registrations, turn.arg) # Undefined) =>
        /\ Len(turn.trace) = listeners
        /\ \A i \in Pos(turn.trace) :
               /\ turn.trace[i].ev = "call"
               /\ turn.trace[i].command = turn.arg
               /\ turn.trace[i].fn = LastRegistered(registrations, turn.arg)

\* a name registered twice with different handlers, and a command for it
\* that invoked the second
C10_Witness ==
    /\ turn.op = "parent_command" /\ listeners >= 1
    /\ \E a, b \in 1..Len(registrations), i \in Pos(turn.trace) :
           /\ a < b
           /\ registrations[a][1] = registrations[b][1]
           /\ registrations[a][2] # registrations[b][2]
           /\ turn.trace[i].ev = "call"
           /\ turn.trace[i].command = registrations[b][1]
           /\ turn.trace[i].fn = registrations[b][2]

---------------------------------------------------------------------------
(* C11 *)

\* C11 as stated: a parent_command whose name onCommand was never called
\* with invokes no function and throws nothing; each listener only logs
\* the warning.
C11_UnregisteredOnlyWarns ==
    (/\ turn.op = "parent_command" /\ listeners >= 1
     /\ LastRegistered(registrations, turn.arg) = Undefined) =>
        /\ Len(turn.trace) = listeners
        /\ \A i \in Pos(turn.trace) :
               turn.trace[i].ev = "warn" /\ turn.trace[i].command = turn.arg

---------------------------------------------------------------------------
(* C12 *)

\* C12: an event whose data is null, a string, or an object of another type
\* than parent_ready / parent_command changes nothing of the session (flag,
\* queue, registry, origin, configuration), posts nothing and invokes no
\* handler and no callback.
C12_MalformedIsIgnored ==
    [][ turn'.op = "ignored" =>
          /\ turn'.trace = <<>>
          /\ UNCHANGED << _config, _parentOrigin, _messageQueue,
                          _commandHandlers, _isReady, listeners, clock,
                          reported, sent, registrations >> ]_vars

\* a string arrived while a message waited in the queue of a listening,
\* embedded session with callbacks, and the queue is still waiting
C12_Witness ==
    /\ turn.op = "ignored" /\ turn.arg = "string"
    /\ Embedded /\ listeners >= 1 /\ ~_isReady /\ _messageQueue # <<>>
    /\ _config.onReady # Undefined

---------------------------------------------------------------------------
(* C13 *)

Failed(trace) == \E i \in Pos(trace) : IsPost(trace[i]) /\ trace[i].threw

\* the messages a trace reports as pushed on the pending queue
QueuedIn(trace) ==
    MsgsOf(SelectSeq(trace, LAMBDA e : e.ev = "queued"))

\* C13: in a turn in which postMessage throws, the failure is caught: no
\* exception leaves the call or the event turn, onError is called right
\* after each failed post exactly when it is configured (and for nothing
\* else), and the session is as a successful delivery would leave it: the
\* ready flag true exactly if it was or a parent_ready was handled, the
\* registry untouched, the queue empty once ready and otherwise the old
\* queue, followed only by what the onError callback's own sendData queued.
C13_FailureIsContained ==
    [][ (Embedded /\ Failed(turn'.trace)) =>
          LET tr == turn'.trace
          IN  /\ \A i \in Pos(tr) : tr[i].ev # "throw"
              /\ \A i \in Pos(tr) :
                     (IsPost(tr[i]) /\ tr[i].threw) =>
                         IF _config'.onError # Undefined
                         THEN i < Len(tr) /\ tr[i + 1].ev = "onError"
                         ELSE i = Len(tr) \/ tr[i + 1].ev # "onError"
              /\ \A i \in Pos(tr) :
                     tr[i].ev = "onError" =>
                         i > 1 /\ IsPost(tr[i - 1]) /\ tr[i - 1].threw
              /\ _isReady' = (_isReady \/ turn'.op = "parent_ready")
              /\ _commandHandlers' = _commandHandlers
              /\ _messageQueue' = IF _isReady' THEN <<>>
                                  ELSE _messageQueue \o QueuedIn(tr)
              /\ \A i \in 1..Len(QueuedIn(tr)) :
                     QueuedIn(tr)[i].data = CallbackData ]_vars

\* a sendData after the handshake whose post threw and was reported to
\* onError
C13_Witness ==
    /\ Embedded /\ _isReady /\ turn.op \in SendOps /\ Len(turn.trace) >= 2
    /\ IsPost(turn.trace[1]) /\ turn.trace[1].threw
    /\ turn.trace[2].ev = "onError"

---------------------------------------------------------------------------
(* C14 *)

OutboundOps == {"init", "parent_ready"} \cup SendOps \cup DirectOps

\* C14: in a top-level page nothing is ever posted, and init, sendData,
\* sendMessage, resize, autoResize, close and the drain of a parent_ready,
\* in an initialised session, neither throw nor call onError.
C14_TopLevelIsSilent ==
    parentIsSelf =>
        /\ sent = <<>>
        /\ (Initialised /\ turn.op \in OutboundOps) =>
               \A i \in Pos(turn.trace) :
                   turn.trace[i].ev \notin {"post", "onError", "throw"}

\* a sendData after the handshake in a top-level page with an onError
\* callback
C14_Witness ==
    /\ parentIsSelf /\ Initialised /\ _isReady /\ turn.op \in SendOps
    /\ _config.onError # Undefined /\ clock >= 3

---------------------------------------------------------------------------
(* C15 *)

\* C15: a parent_command whose name has a handler in the registry makes
\* every attached listener (one, in a session initialised once) call that
\* handler once with the message's params, whether the ready flag is false
\* or true; the turn posts nothing and leaves flag, queue and registry as
\* they were.
C15_CommandRouting ==
    [][ (/\ turn'.op = "parent_command" /\ listeners >= 1
         /\ turn'.arg \in CommandNames
         /\ _commandHandlers[turn'.arg] # Undefined) =>
          /\ Len(turn'.trace) = listeners
          /\ \A i \in Pos(turn'.trace) :
                 /\ turn'.trace[i].ev = "call"
                 /\ turn'.trace[i].fn = _commandHandlers[turn'.arg]
                 /\ turn'.trace[i].arg = turn'.params
          /\ UNCHANGED << _isReady, _messageQueue, _commandHandlers, sent >>
      ]_vars

\* a command handled once, before the handshake, with a message waiting in
\* the queue
C15_Witness ==
    /\ turn.op = "parent_command" /\ listeners = 1 /\ ~_isReady
    /\ _messageQueue # <<>>
    /\ Len(turn.trace) = 1 /\ turn.trace[1].ev = "call"
    /\ turn.params = "p1" /\ turn.trace[1].arg = "p1"

---------------------------------------------------------------------------
(* C16 *)

\* the referrer's origin, or the wildcard without a referrer
TrustedOrigin == IF referrer # "" THEN URLOrigin(referrer) ELSE "*"

\* C16: once init has run, _parentOrigin does not change any more; in an
\* embedded page it is the referrer's origin, or "*" without a referrer,
\* and every postMessage call of the session is addressed to it.
C16_OriginIsFixed ==
    /\ []((Embedded /\ Initialised) =>
             /\ _parentOrigin = TrustedOrigin
             /\ \A i \in 1..Len(sent) : sent[i].to = _parentOrigin)
    /\ [][ Initialised => _parentOrigin' = _parentOrigin ]_vars

\* a session of a page with a referrer, initialised twice, that has posted
\* three messages
C16_Witness ==
    /\ Embedded /\ referrer = "https://host.example/chat?s=1"
    /\ _parentOrigin = "https://host.example"
    /\ listeners >= 2 /\ Len(sent) >= 3

---------------------------------------------------------------------------
(* C17 *)

\* C17: before init has populated _config nothing has been posted and
\* nothing is queued: a sendData, sendMessage, resize or close call made
\* then only throws; so every post is preceded by a completed init.
C17_NothingBeforeInit ==
    /\ ~Initialised =>
           /\ sent = <<>> /\ _messageQueue = <<>> /\ listeners = 0
           /\ turn.op \in (SendOps \cup DirectOps) =>
                  turn.trace = << [ev |-> "throw", err |-> "TypeError"] >>
    /\ sent # <<>> => (Initialised /\ listeners >= 1)

\* a second call made before init
C17_Witness ==
    /\ ~Initialised /\ turn.op \in SendOps /\ clock >= 2
    /\ turn.trace # <<>>

---------------------------------------------------------------------------
(* C18 *)

\* C18: in an embedded page the first postMessage call of the session
\* carries embed_ready, and every init call makes the post of its
\* embed_ready its first step, inside the call, whatever the ready flag is.
C18_ReadyComesFirst ==
    /\ []((Embedded /\ sent # <<>>) => sent[1].msg.type = "embed_ready")
    /\ [][ (turn'.op = "init" /\ Embedded) =>
              /\ turn'.trace # <<>>
              /\ IsPost(turn'.trace[1])
              /\ turn'.trace[1].msg.type = "embed_ready"
              /\ turn'.trace[1].msg.pageId = _config'.pageId
              /\ Len(sent') > Len(sent)
              /\ sent'[Len(sent) + 1] = turn'.trace[1] ]_vars

\* resize or close posted behind embed_ready while the handshake is pending
C18_Witness ==
    /\ Embedded /\ ~_isReady /\ Len(sent) >= 2
    /\ sent[1].msg.type = "embed_ready"
    /\ sent[2].msg.type \in {"embed_resize", "embed_close"}

---------------------------------------------------------------------------
(* C19 *)

\* C19: over the whole session the embed_data messages are posted in the
\* order of the sendData calls that created them (their timestamps, the
\* ticks of the calls, increase along sent), the calls made from onError
\* and onReady during a parent_ready included.
C19_DataInCallOrder ==
    Embedded =>
        \A i, j \in 1..Len(sent) :
            (/\ i < j
             /\ sent[i].msg.type = "embed_data"
             /\ sent[j].msg.type = "embed_data")
                => sent[i].msg.timestamp < sent[j].msg.timestamp

---------------------------------------------------------------------------
(* C20 *)

\* a post of a message of the pending queue fails in the turn
DrainFails ==
    \E k \in 1..Len(_messageQueue) :
        \E i \in PostedAt(turn'.trace, _messageQueue[k]) : turn'.trace[i].threw

\* C20: when the post of a queued message fails during the drain of the
\* first parent_ready, nothing is thrown, every message of the queue, the
\* failed one included, is still posted exactly once and in queue order,
\* the queue ends empty, and onReady (when configured) is called after the
\* last of these posts.
C20_DrainSurvivesFailure ==
    [][ (Handshake /\ Embedded /\ DrainFails) =>
          /\ \A i \in Pos(turn'.trace) : turn'.trace[i].ev # "throw"
          /\ Len(PostsOf(_messageQueue, turn'.trace)) = Len(_messageQueue)
          /\ \A k \in 1..Len(_messageQueue) :
                 PostsOf(_messageQueue, turn'.trace)[k].msg = _messageQueue[k]
          /\ _messageQueue' = <<>>
          /\ CallsOnReady(_config) =>
                 \E j \in Pos(turn'.trace) :
                     /\ turn'.trace[j].ev = "onReady"
                     /\ \A i \in Pos(turn'.trace) :
                            IsQueuedIn(_messageQueue, turn'.trace[i]) => i < j
      ]_vars

\* a drain whose first post failed, whose next queued message was posted,
\* and that ended with onReady
C20_Witness ==
    /\ Embedded /\ _isReady /\ turn.op = "parent_ready"
    /\ \E i, j, k \in Pos(turn.trace) :
           /\ i < j /\ j < k
           /\ IsDataPost(turn.trace[i]) /\ FromPage(turn.trace[i].msg)
           /\ turn.trace[i].threw
           /\ IsDataPost(turn.trace[j]) /\ FromPage(turn.trace[j].msg)
           /\ ~turn.trace[j].threw
           /\ turn.trace[k].ev = "onReady"

====
